---- MODULE Spec2Model ----
(***************************************************************************)
(* A model of the ROAM job dispatch pipeline.                              *)
(*                                                                         *)
(*   controller/app/services/tasks.py      submit_task, get_task_status    *)
(*   worker/roam_worker.py                 PersistentWorker                *)
(*   controller/app/services/redis.py      RedisService                    *)
(*   controller/app/services/streaming.py  StreamingService                *)
(*   controller/app/main.py                the job table and execute_job   *)
(*   client/src/remote_env/env.py           Env, the caller's side          *)
(*   client/src/remote_env/__init__.py      Env over /eval                  *)
(*   worker/celery_worker.py                execute_code in a child process *)
(*                                                                         *)
(* Redis is modelled by what its commands do: the list roam:jobs is a      *)
(* sequence whose head is index 1 (LPUSH prepends, BLPOP removes the       *)
(* head), a channel hands a published message to the subscriptions that    *)
(* exist at that moment and keeps nothing, and the key space is a          *)
(* function from keys to values.                                           *)
(***************************************************************************)
EXTENDS Integers, Sequences, FiniteSets, TLC

\* ------------------------------------------------------------------ bounds
MaxTasks == 2
NumWorkers == 2
StreamTasks == 1
NumStreams == 1
MaxForeign == 1
MaxJobs == 1
MaxStr == 2

\* --------------------------------------------------------------- constants
NoJob == [task_id |-> 0, code |-> "none"]
None == "None"
UnknownId == 0

TaskIds == 1 .. MaxTasks
AllIds == 0 .. MaxTasks
Workers == 1 .. NumWorkers
Streams == 1 .. NumStreams
JobIds == 1 .. MaxJobs

\* The payloads a request can carry, by what running them does:
\*   ""       the empty string
\*   "value"  runs and leaves a JSON-serialisable value
\*   "raise"  raises while it runs
\*   "object" runs and leaves a value json.dumps rejects
\*   "print_raise"  writes to standard output, then raises
\*   "exit"   raises SystemExit (sys.exit()), which is no Exception
Codes == {"", "value", "raise", "object", "print_raise", "exit"}

VARIABLES
    queue,      \* the Redis list roam:jobs, head first
    nextId,     \* the next fresh uuid4
    calls,      \* submit_task calls: task id -> "none" | "returned" | "raised"
    response,   \* what the last submit_task call returned
    enq,        \* the task ids whose LPUSH Redis carried out, in order
    wpc,        \* worker -> "blpop" | "try" | "publish" | "except" | "crashed" | "stopped"
    wjob,       \* worker -> the job it holds
    werr,       \* worker -> str(e) of the exception being handled
    deq,        \* the task ids BLPOP returned, in order
    kv,         \* the Redis keys roam:result:<id>
    reply,      \* the last status reply
    spc,        \* stream -> "closed" | "connected" | "listening" | "after_result" | "done"
    stask,      \* stream -> the task id it was opened for
    inbox,      \* stream -> messages Redis delivered to its subscription, unread
    events,     \* stream -> the events it has emitted
    sent,       \* task id -> the messages workers published on roam:results:<id>, in order
    foreign,    \* the number of messages other Redis clients have published
    jobs,       \* main.py jobs: job id -> JobResponse, status "absent" before submit_job
    cpc,        \* job id -> where its execute_job task stands
    elapsed,    \* job id -> execute_job's elapsed
    k8s,        \* job id -> the Kubernetes Job: "none" | "active" | "succeeded" | "failed"
    written,    \* job id -> the entry after each write of its status, in order
    client,     \* the caller waiting for FirstJob in Env._wait_for_job
    call,       \* one remote call, from the function's value to what the caller gets
    build,      \* one call of a wrapper of Env.fn, up to the request it sends
    run,        \* one payload under execute_code or /eval
    child       \* one execute_code task of celery_worker.py and its child process

queueVars == <<queue, nextId, calls, enq, response>>
workerVars == <<wpc, wjob, werr, deq>>
streamVars == <<spc, stask, inbox, events>>
ctlVars == <<jobs, cpc, elapsed, k8s, written>>
callVars == <<client, call>>
partVars == <<build, run, child>>
redisVars == <<queue, nextId, calls, enq, response, wpc, wjob, werr, deq,
               kv, reply, spc, stask, inbox, events, sent, foreign>>
vars == <<queue, nextId, calls, enq, response, wpc, wjob, werr, deq,
          kv, reply, spc, stask, inbox, events, sent, foreign,
          jobs, cpc, elapsed, k8s, written, client, call, partVars>>

\* ---------------------------------------------------------------- messages
\* A message on a channel: shape is what json.loads makes of it ("nonjson" when
\* it raises JSONDecodeError, "scalar" for JSON that is no object, "object" for
\* an object); success is message.get("success") of an object. The workers
\* (roam_worker.py 63, 76) set the stdout field to the empty string.
Msg(shape, success, error) ==
    [shape |-> shape, success |-> success, error |-> error, stdout |-> ""]

\* roam_worker.py 60-65
result_data == Msg("object", "True", None)

\* roam_worker.py 72-78
error_data(e) == Msg("object", "False", e)

IsOutcome(m) == m.shape = "object" /\ m.success # None

\* The Outcomes published for task t, in order.
Outcomes(t) == SelectSeq(sent[t], IsOutcome)

Range(f) == {f[i] : i \in DOMAIN f}

\* ------------------------------------------------------------------- Init
\* main.py 24-28 JobResponse; status "absent" stands for a job id not in jobs.
JobResponse(status, result, error) == [status |-> status, result |-> result, error |-> error]

NoJobResponse == JobResponse("absent", None, None)

NoReply == [api |-> "none", id |-> 0, status |-> "none"]

\* models/__init__.py 12-14, tasks.py 31: what a submit_task call returned;
\* outcome is "none" before the call and "raised" when it raised.
TaskResponse(task_id) ==
    [outcome |-> "returned", task_id |-> task_id, stream_url |-> <<"/stream/", task_id>>]

NoTaskResponse(outcome) == [outcome |-> outcome, task_id |-> UnknownId, stream_url |-> <<>>]

\* env.py 224-262: the caller's wait. pc is "idle" | "waiting" | "returned" |
\* "raised"; polled says whether a status request has been answered; code is
\* the payload of a call made through /eval; out is what the call returned or
\* raised, a message being the sequence of its parts.
NoOut == [kind |-> "none", msg |-> <<>>]

NoClient == [pc |-> "idle", polled |-> FALSE, waited |-> 0, code |-> "none", out |-> NoOut]

NoCall == [stage |-> "none"]

NoPart == [stage |-> "none"]

InitBase ==
    /\ queue = <<>>
    /\ nextId = 1
    /\ calls = [t \in TaskIds |-> "none"]
    /\ response = NoTaskResponse("none")
    /\ enq = <<>>
    /\ wpc = [w \in Workers |-> "blpop"]
    /\ wjob = [w \in Workers |-> NoJob]
    /\ werr = [w \in Workers |-> None]
    /\ deq = <<>>
    /\ kv = [t \in AllIds |-> None]
    /\ reply = NoReply
    /\ spc = [s \in Streams |-> "closed"]
    /\ stask = [s \in Streams |-> 0]
    /\ inbox = [s \in Streams |-> <<>>]
    /\ events = [s \in Streams |-> <<>>]
    /\ sent = [t \in AllIds |-> <<>>]
    /\ foreign = 0
    /\ jobs = [j \in JobIds |-> NoJobResponse]
    /\ cpc = [j \in JobIds |-> "none"]
    /\ elapsed = [j \in JobIds |-> 0]
    /\ k8s = [j \in JobIds |-> "none"]
    /\ written = [j \in JobIds |-> <<>>]
    /\ client = NoClient

Init == InitBase /\ call = NoCall /\ build = NoPart /\ run = NoPart /\ child = NoPart

\* ------------------------------------------------------------ Redis commands
\* A push that puts the value on the list twice.
lpush_twice(list, value) == <<value, value>> \o list

\* LPUSH key value: the value becomes the head of the list.
lpush(list, value) == <<value>> \o list

\* BLPOP key: the head of the list (the caller blocks while the list is empty).
blpop_value(list) == Head(list)

\* A pop that reads the head and leaves it on the list.
blpop_rest_peek(list) == list

\* BLPOP key: what it leaves of the list.
blpop_rest(list) == Tail(list)

\* A subscription that receives whatever is published on any result channel.
Subscribed_any(s, t) == spc[s] \in {"listening", "after_result"}

\* PUBLISH channel message: handed to every subscription on the channel now
\* (roam_worker.py 48, streaming.py 18: the channel roam:results:<task_id>).
Subscribed(s, t) == spc[s] \in {"listening", "after_result"} /\ stask[s] = t

publish(t, m) ==
    inbox' = [s \in Streams |-> IF Subscribed(s, t) THEN Append(inbox[s], m) ELSE inbox[s]]

\* ------------------------------------------------------------- submit_task
\* tasks.py 16-31. The coroutine awaits nothing, so the event loop runs a call
\* from its first line to its return before it starts the next one.
submit_task(c) ==
    /\ nextId <= MaxTasks
    /\ queue' = lpush(queue, [task_id |-> nextId, code |-> c])
    /\ enq' = Append(enq, nextId)
    /\ calls' = [calls EXCEPT ![nextId] = "returned"]
    /\ response' = TaskResponse(nextId)
    /\ nextId' = nextId + 1
    /\ UNCHANGED <<workerVars, kv, reply, streamVars, sent, foreign, ctlVars, callVars, partVars>>

\* tasks.py 28: the push raises (Redis unreachable) and submit_task with it.
submit_task_raises ==
    /\ nextId <= MaxTasks
    /\ calls' = [calls EXCEPT ![nextId] = "raised"]
    /\ response' = NoTaskResponse("raised")
    /\ nextId' = nextId + 1
    /\ UNCHANGED <<queue, enq, workerVars, kv, reply, streamVars, sent, foreign, ctlVars, callVars, partVars>>

\* -------------------------------------------------------- PersistentWorker
\* An entry of roam:jobs that is no JSON text; it names no job.
NotJson == [task_id |-> UnknownId, code |-> "not json"]

\* roam_worker.py 34: json.loads raises JSONDecodeError for such an entry.
loads_raises(entry) == entry = NotJson

\* roam_worker.py 31-36: the blocking pop, then execute_job is entered; when
\* json.loads raises, lines 41-43 print the error and sleep, and the loop is
\* back at the pop without the entry.
WorkerBlpop(w) ==
    /\ wpc[w] = "blpop"
    /\ queue # <<>>
    /\ wjob' = [wjob EXCEPT ![w] = IF loads_raises(blpop_value(queue))
                                     THEN @ ELSE blpop_value(queue)]
    /\ queue' = blpop_rest(queue)
    /\ deq' = Append(deq, blpop_value(queue).task_id)
    /\ wpc' = [wpc EXCEPT ![w] = IF loads_raises(blpop_value(queue)) THEN "blpop" ELSE "try"]
    /\ UNCHANGED <<nextId, calls, enq, response, werr, kv, reply, streamVars, sent, foreign, ctlVars, callVars, partVars>>

\* roam_worker.py 83-105 by what the payload does: the exception it raises, or None.
execute_code(code) ==
    CASE code \in {"raise", "print_raise"} -> "payload error"
      [] code = "exit" -> "SystemExit"
      [] OTHER -> None

\* What the payload has written to standard output when execute_code returns
\* or raises (roam_worker.py 90: exec runs it on the worker's own stdout).
stdout_of(code) == IF code = "print_raise" THEN "out" ELSE ""

\* roam_worker.py 70 and 41: except Exception. SystemExit derives from
\* BaseException, so neither handler catches it and it leaves start.
escapes(e) == e = "SystemExit"

\* roam_worker.py 50-67 up to the publish: the exception raised on the way, or None
\* (json.dumps of line 67 raises on a value it cannot serialise).
TryRaises(code) ==
    IF code = "" THEN "No code provided in job"
    ELSE IF execute_code(code) # None THEN execute_code(code)
    ELSE IF code = "object" THEN "not JSON serializable"
    ELSE None

\* roam_worker.py 90: exec comes back, by return or by raise, when the payload
\* ends; "loop" is a payload that never does, and nothing stops it.
ends(code) == code # "loop"

WorkerTry(w) ==
    /\ wpc[w] = "try"
    /\ ends(wjob[w].code)
    /\ IF TryRaises(wjob[w].code) # None
         THEN /\ wpc' = [wpc EXCEPT ![w] = IF escapes(TryRaises(wjob[w].code))
                                             THEN "stopped" ELSE "except"]
              /\ werr' = [werr EXCEPT ![w] = TryRaises(wjob[w].code)]
         ELSE /\ wpc' = [wpc EXCEPT ![w] = "publish"]
              /\ werr' = werr
    /\ UNCHANGED <<queueVars, wjob, deq, kv, reply, streamVars, sent, foreign, ctlVars, callVars, partVars>>

\* A PUBLISH that returns has been carried out. One that raises has either not
\* reached Redis or has been carried out by Redis with the reply lost.
PublishOutcomes == {"returns", "raises_unsent", "raises_sent"}

\* Where execute_job goes when line 67 (or the print of line 68) has raised.
AfterTryRaise == "except"

\* roam_worker.py 67-68: publish the success Outcome.
WorkerPublish(w, o) ==
    /\ wpc[w] = "publish"
    /\ IF o = "raises_unsent"
         THEN UNCHANGED <<inbox, sent>>
         ELSE /\ publish(wjob[w].task_id, result_data)
              /\ sent' = [sent EXCEPT ![wjob[w].task_id] = Append(@, result_data)]
    /\ IF o = "returns"
         THEN /\ wpc' = [wpc EXCEPT ![w] = "blpop"]
              /\ wjob' = [wjob EXCEPT ![w] = NoJob]
              /\ werr' = werr
         ELSE /\ wpc' = [wpc EXCEPT ![w] = AfterTryRaise]
              /\ werr' = [werr EXCEPT ![w] = "ConnectionError"]
              /\ wjob' = wjob
    /\ UNCHANGED <<queueVars, deq, kv, reply, spc, stask, events, foreign, ctlVars, callVars, partVars>>

\* roam_worker.py 70-81, and 41-43 when this publish raises: the exception leaves
\* execute_job, start catches it, sleeps and goes back to the pop.
WorkerExcept(w, o) ==
    /\ wpc[w] = "except"
    /\ IF o = "raises_unsent"
         THEN UNCHANGED <<inbox, sent>>
         ELSE /\ publish(wjob[w].task_id, error_data(werr[w]))
              /\ sent' = [sent EXCEPT ![wjob[w].task_id] = Append(@, error_data(werr[w]))]
    /\ wpc' = [wpc EXCEPT ![w] = "blpop"]
    /\ wjob' = [wjob EXCEPT ![w] = NoJob]
    /\ werr' = [werr EXCEPT ![w] = None]
    /\ UNCHANGED <<queueVars, deq, kv, reply, spc, stask, events, foreign, ctlVars, callVars, partVars>>

\* The worker process dies while it holds a job; no code puts the job back.
WorkerCrash(w) ==
    /\ wpc[w] \in {"try", "publish", "except"}
    /\ wpc' = [wpc EXCEPT ![w] = "crashed"]
    /\ werr' = [werr EXCEPT ![w] = None]
    /\ UNCHANGED <<queueVars, wjob, deq, kv, reply, streamVars, sent, foreign, ctlVars, callVars, partVars>>

\* Another client of the Redis server pushes a text that is no JSON on
\* roam:jobs (roam_worker.py 21, 31: the list is any client's to write).
ForeignLpush ==
    /\ foreign < MaxForeign
    /\ foreign' = foreign + 1
    /\ queue' = lpush(queue, NotJson)
    /\ UNCHANGED <<nextId, calls, enq, response, workerVars, kv, reply, streamVars, sent,
                   ctlVars, callVars, partVars>>

\* -------------------------------------------------------------------- Spec
\* The queue and the worker pool.
Next ==
    \/ \E c \in Codes : submit_task(c)
    \/ submit_task_raises
    \/ \E w \in Workers : WorkerBlpop(w)
    \/ \E w \in Workers : WorkerTry(w)
    \/ \E w \in Workers, o \in PublishOutcomes : WorkerPublish(w, o)
    \/ \E w \in Workers, o \in PublishOutcomes : WorkerExcept(w, o)
    \/ \E w \in Workers : WorkerCrash(w)

Spec == Init /\ [][Next]_vars

\* The submissions, and the pops that take jobs off the queue between them.
NextSubmit ==
    \/ \E c \in Codes : submit_task(c)
    \/ submit_task_raises
    \/ \E w \in Workers : WorkerBlpop(w)

SpecSubmit == Init /\ [][NextSubmit]_vars

\* --------------------------------------------------------- get_task_status
\* tasks.py 76-91: the status replied for task_id; get_raises when
\* redis_service.get raises.
get_task_status(task_id, get_raises) ==
    IF get_raises THEN "error"
    ELSE IF kv[task_id] # None THEN "completed"
    ELSE "running"

QueryTask(t, get_raises) ==
    /\ reply' = [api |-> "get_task_status", id |-> t,
                 status |-> get_task_status(t, get_raises)]
    /\ UNCHANGED <<queueVars, workerVars, kv, streamVars, sent, foreign, ctlVars, callVars, partVars>>

\* The queue, the worker pool and the status lookups of the task service.
NextStatus ==
    \/ Next
    \/ \E t \in AllIds, r \in BOOLEAN : QueryTask(t, r)

SpecStatus == Init /\ [][NextStatus]_vars

\* ------------------------------------------------------------ event_stream
Event(type, task_id, data) == [type |-> type, task_id |-> task_id, data |-> data]

NoMsg == Msg("none", None, None)

Last(seq) == seq[Len(seq)]

\* streaming.py 18-22: the connected event, before anything is subscribed.
StreamOpen(s, t) ==
    /\ spc[s] = "closed"
    /\ spc' = [spc EXCEPT ![s] = "connected"]
    /\ stask' = [stask EXCEPT ![s] = t]
    /\ events' = [events EXCEPT ![s] = <<Event("connected", t, NoMsg)>>]
    /\ UNCHANGED <<queueVars, workerVars, kv, reply, inbox, sent, foreign, ctlVars, callVars, partVars>>

\* streaming.py 25, redis.py 36-37: the generator is entered and subscribes.
StreamSubscribe(s) ==
    /\ spc[s] = "connected"
    /\ spc' = [spc EXCEPT ![s] = "listening"]
    /\ UNCHANGED <<queueVars, workerVars, kv, reply, stask, inbox, events, sent, foreign, ctlVars, callVars, partVars>>

\* A listener for which no message is malformed.
malformed_never(m) == FALSE

\* redis.py 43-47: json.loads of the message data raises JSONDecodeError.
malformed(m) == m.shape = "nonjson"

\* redis.py 41-47, streaming.py 25-27: the next message of the subscription; a
\* malformed one is skipped, any other is emitted as a result event.
StreamReceive(s) ==
    /\ spc[s] = "listening"
    /\ inbox[s] # <<>>
    /\ inbox' = [inbox EXCEPT ![s] = Tail(@)]
    /\ IF malformed(Head(inbox[s]))
         THEN UNCHANGED <<spc, events>>
         ELSE /\ spc' = [spc EXCEPT ![s] = "after_result"]
              /\ events' = [events EXCEPT ![s] = Append(@, Event("result", None, Head(inbox[s])))]
    /\ UNCHANGED <<queueVars, workerVars, kv, reply, stask, sent, foreign, ctlVars, callVars, partVars>>

\* streaming.py 30 when the condition holds only for a true success.
is_complete_truthy(m) == m.success = "True"

\* streaming.py 30: message.get("success") is not None.
is_complete(m) == m.success # None

\* A generator that goes on listening after the complete event.
AfterBreak_listening == "listening"

\* streaming.py 32: break leaves the loop and the generator ends.
AfterBreak == "done"

\* streaming.py 30-35 and redis.py 48: after the result event. message.get
\* raises on a message that is no object and the handler emits an error event;
\* a message with a success field ends the stream with a complete event; any
\* other message leaves the stream listening.
StreamAfterResult(s) ==
    /\ spc[s] = "after_result"
    /\ IF Last(events[s]).data.shape # "object"
         THEN /\ events' = [events EXCEPT ![s] = Append(@, Event("error", None, NoMsg))]
              /\ spc' = [spc EXCEPT ![s] = "done"]
              /\ inbox' = [inbox EXCEPT ![s] = <<>>]
         ELSE IF is_complete(Last(events[s]).data)
                THEN /\ events' = [events EXCEPT ![s] = Append(@, Event("complete", None, NoMsg))]
                     /\ spc' = [spc EXCEPT ![s] = AfterBreak]
                     /\ inbox' = [inbox EXCEPT ![s] = <<>>]
                ELSE /\ spc' = [spc EXCEPT ![s] = "listening"]
                     /\ UNCHANGED <<events, inbox>>
    /\ UNCHANGED <<queueVars, workerVars, kv, reply, stask, sent, foreign, ctlVars, callVars, partVars>>

\* redis.py 36-41, streaming.py 34-35: subscribing or listening raises (the
\* connection to Redis fails); the stream emits an error event and ends.
StreamFault(s) ==
    /\ spc[s] \in {"connected", "listening"}
    /\ events' = [events EXCEPT ![s] = Append(@, Event("error", None, NoMsg))]
    /\ spc' = [spc EXCEPT ![s] = "done"]
    /\ inbox' = [inbox EXCEPT ![s] = <<>>]
    /\ UNCHANGED <<queueVars, workerVars, kv, reply, stask, sent, foreign, ctlVars, callVars, partVars>>

\* Another Redis client publishes on a result channel: a message that is not
\* JSON, JSON that is no object, or an object without a success field.
ForeignMsgs == { Msg("nonjson", None, None),
                 Msg("scalar", None, None),
                 Msg("object", None, None) }

ForeignPublish(t, m) ==
    /\ foreign < MaxForeign
    /\ foreign' = foreign + 1
    /\ publish(t, m)
    /\ UNCHANGED <<queueVars, workerVars, kv, reply, spc, stask, events, sent, ctlVars, callVars, partVars>>

\* The tasks, the worker and the payloads of the streaming specification.
StreamIds == 0 .. StreamTasks

StreamWorker == 1

StreamCodes == {"value", "raise"}

\* One worker serving the queue, and the streams of the gateway.
NextStream ==
    \/ \E c \in StreamCodes : nextId <= StreamTasks /\ submit_task(c)
    \/ WorkerBlpop(StreamWorker)
    \/ WorkerTry(StreamWorker)
    \/ \E o \in PublishOutcomes : WorkerPublish(StreamWorker, o)
    \/ \E o \in PublishOutcomes : WorkerExcept(StreamWorker, o)
    \/ \E s \in Streams, t \in StreamIds : StreamOpen(s, t)
    \/ \E s \in Streams : StreamSubscribe(s)
    \/ \E s \in Streams : StreamReceive(s)
    \/ \E s \in Streams : StreamAfterResult(s)
    \/ \E s \in Streams : StreamFault(s)
    \/ \E t \in StreamIds, m \in ForeignMsgs : ForeignPublish(t, m)

SpecStream == Init /\ [][NextStream]_vars

\* The worker loop and the stream generators keep running: each step that
\* stays possible is eventually taken. Faults, crashes, new submissions and
\* other clients' messages are not owed.
FairStream ==
    /\ WF_vars(WorkerBlpop(StreamWorker))
    /\ WF_vars(WorkerTry(StreamWorker))
    /\ WF_vars(\E o \in PublishOutcomes : WorkerPublish(StreamWorker, o))
    /\ WF_vars(\E o \in PublishOutcomes : WorkerExcept(StreamWorker, o))
    /\ \A s \in Streams :
        /\ WF_vars(StreamSubscribe(s))
        /\ WF_vars(StreamReceive(s))
        /\ WF_vars(StreamAfterResult(s))

FairSpecStream == SpecStream /\ FairStream

\* Several jobs outstanding at once, one worker serving them, and the streams
\* of the gateway opened for submitted or unknown job ids.
NextChannels ==
    \/ \E c \in StreamCodes : submit_task(c)
    \/ WorkerBlpop(StreamWorker)
    \/ WorkerTry(StreamWorker)
    \/ \E o \in PublishOutcomes : WorkerPublish(StreamWorker, o)
    \/ \E o \in PublishOutcomes : WorkerExcept(StreamWorker, o)
    \/ \E s \in Streams, t \in AllIds : StreamOpen(s, t)
    \/ \E s \in Streams : StreamSubscribe(s)
    \/ \E s \in Streams : StreamReceive(s)
    \/ \E s \in Streams : StreamAfterResult(s)

SpecChannels == Init /\ [][NextChannels]_vars

\* One worker whose publishes reach Redis, the streams of the gateway, and
\* another client that publishes text that is not JSON.
NextSkip ==
    \/ \E c \in StreamCodes : nextId <= StreamTasks /\ submit_task(c)
    \/ WorkerBlpop(StreamWorker)
    \/ WorkerTry(StreamWorker)
    \/ WorkerPublish(StreamWorker, "returns")
    \/ WorkerExcept(StreamWorker, "returns")
    \/ \E s \in Streams, t \in StreamIds : StreamOpen(s, t)
    \/ \E s \in Streams : StreamSubscribe(s)
    \/ \E s \in Streams : StreamReceive(s)
    \/ \E s \in Streams : StreamAfterResult(s)
    \/ \E t \in StreamIds : ForeignPublish(t, Msg("nonjson", None, None))

SpecSkip == Init /\ [][NextSkip]_vars

FairSpecSkip == SpecSkip /\ FairStream

\* ------------------------------------------------- submitters that never stop
\* Job t has left the pipeline: a worker popped it and has let go of it.
Gone(t) ==
    /\ t \in Range(deq)
    /\ \A w \in Workers : wjob[w].task_id # t

Without(seq, t) == SelectSeq(seq, LAMBDA x : x # t)

\* tasks.py 16-31, a later call: uuid4 gives every call a fresh id. The model
\* has the names TaskIds only, so once they are used up the name of a job that
\* has left the pipeline names the new job, and the records of the old one are
\* dropped.
submit_task_again(t, c) ==
    /\ nextId > MaxTasks
    /\ Gone(t)
    /\ queue' = lpush(queue, [task_id |-> t, code |-> c])
    /\ enq' = Append(Without(enq, t), t)
    /\ deq' = Without(deq, t)
    /\ sent' = [sent EXCEPT ![t] = <<>>]
    /\ response' = TaskResponse(t)
    /\ UNCHANGED <<nextId, calls, wpc, wjob, werr, kv, reply, streamVars, foreign, ctlVars, callVars, partVars>>

\* Submitters that go on submitting, and the worker pool.
NextQueue ==
    \/ \E c \in StreamCodes : submit_task(c)
    \/ \E t \in TaskIds, c \in StreamCodes : submit_task_again(t, c)
    \/ \E w \in Workers : WorkerBlpop(w)
    \/ \E w \in Workers : WorkerTry(w)
    \/ \E w \in Workers, o \in PublishOutcomes : WorkerPublish(w, o)
    \/ \E w \in Workers, o \in PublishOutcomes : WorkerExcept(w, o)

\* roam_worker.py 28: while True. Every worker loop keeps running: a step of
\* it that stays possible is eventually taken. Submitters owe nothing.
FairWorkers ==
    \A w \in Workers :
        /\ WF_vars(WorkerBlpop(w))
        /\ WF_vars(WorkerTry(w))
        /\ WF_vars(\E o \in PublishOutcomes : WorkerPublish(w, o))
        /\ WF_vars(\E o \in PublishOutcomes : WorkerExcept(w, o))

FairSpecQueue == Init /\ [][NextQueue]_vars /\ FairWorkers

\* The payloads of the specification of running time: one that returns, one
\* that raises, one that never ends.
LoopCodes == {"value", "raise", "loop"}

\* The queue and the worker pool, Redis reachable and no worker killed.
NextLoop ==
    \/ \E c \in LoopCodes : submit_task(c)
    \/ \E w \in Workers : WorkerBlpop(w)
    \/ \E w \in Workers : WorkerTry(w)
    \/ \E w \in Workers : WorkerPublish(w, "returns")
    \/ \E w \in Workers : WorkerExcept(w, "returns")

\* The worker pool with entries of both kinds on the queue and publishes that
\* can fail; no worker dies and no payload leaves the loop.
NextEntries ==
    \/ \E c \in StreamCodes : submit_task(c)
    \/ ForeignLpush
    \/ \E w \in Workers : WorkerBlpop(w)
    \/ \E w \in Workers : WorkerTry(w)
    \/ \E w \in Workers, o \in PublishOutcomes : WorkerPublish(w, o)
    \/ \E w \in Workers, o \in PublishOutcomes : WorkerExcept(w, o)

SpecEntries == Init /\ [][NextEntries]_vars

\* roam_worker.py 28: while True, as in FairWorkers.
FairLoop ==
    \A w \in Workers :
        /\ WF_vars(WorkerBlpop(w))
        /\ WF_vars(WorkerTry(w))
        /\ WF_vars(WorkerPublish(w, "returns"))
        /\ WF_vars(WorkerExcept(w, "returns"))

FairSpecLoop == Init /\ [][NextLoop]_vars /\ FairLoop

\* ------------------------------------------------- main.py: the job table
\* execute_job awaits only at line 186 and the Kubernetes client calls block,
\* so the event loop runs a task from one sleep to the next without any other
\* coroutine in between. A task rests at "created" (scheduled, not started)
\* and at "loop" (the sleep of line 186 is over and counted, the loop test of
\* line 131 comes next). written[j] keeps the entry of job j as it stood after
\* each write of its status (with the result or error written beside it).

\* main.py 127
timeout == 300

\* main.py 128
check_interval == 2

Terminal == {"completed", "failed"}

\* A task's frame: the table entry and the writes made to it so far.
Frame(j) == [job |-> jobs[j], written |-> written[j]]

\* One write of the status, with the result or error written beside it.
write(f, status, result, error) ==
    [job |-> JobResponse(status, result, error),
     written |-> Append(f.written, JobResponse(status, result, error))]

\* main.py 44-58: a fresh job id, the pending entry, the background task.
submit_job(j) ==
    /\ jobs[j].status = "absent"
    /\ written[j] = <<>>
    /\ \A i \in JobIds : i < j => jobs[i].status # "absent"
    /\ jobs' = [jobs EXCEPT ![j] = JobResponse("pending", None, None)]
    /\ written' = [written EXCEPT ![j] = <<JobResponse("pending", None, None)>>]
    /\ cpc' = [cpc EXCEPT ![j] = "created"]
    /\ UNCHANGED <<elapsed, k8s, redisVars, callVars, partVars>>

\* main.py 61-66
get_job_status(job_id) ==
    IF job_id \notin JobIds \/ jobs[job_id].status = "absent"
      THEN "not_found"
      ELSE jobs[job_id].status

\* execute_job entered without the write of line 72.
started_unmarked(f) == f

\* main.py 72
started(f) == write(f, "running", f.job.result, f.job.error)

\* main.py 207-209: the outer handler.
outer_except(f) == write(f, "failed", f.job.result, "exception")

\* main.py 69-129: the task starts: running, the cluster configuration, the
\* manifest and the create request. A failure of any of them reaches the outer
\* handler and the task returns.
ExecStart(j, raises) ==
    /\ cpc[j] = "created"
    /\ LET f == IF raises THEN outer_except(started(Frame(j))) ELSE started(Frame(j))
       IN  /\ jobs' = [jobs EXCEPT ![j] = f.job]
           /\ written' = [written EXCEPT ![j] = f.written]
    /\ cpc' = [cpc EXCEPT ![j] = IF raises THEN "returned_uncreated" ELSE "loop"]
    /\ k8s' = [k8s EXCEPT ![j] = IF raises THEN @ ELSE "active"]
    /\ UNCHANGED <<elapsed, redisVars, callVars, partVars>>

\* The Kubernetes Job ends on its own while the controller polls it.
K8sFinish(j, how) ==
    /\ cpc[j] = "loop"
    /\ k8s[j] = "active"
    /\ k8s' = [k8s EXCEPT ![j] = how]
    /\ UNCHANGED <<jobs, written, cpc, elapsed, redisVars, callVars, partVars>>

\* The loop test with the boundary included.
loop_continues_inclusive(e) == e <= timeout

\* main.py 131: while elapsed < timeout
loop_continues(e) == e < timeout

\* The test after the loop with the boundary left out.
timed_out_strict(e) == e > timeout

\* main.py 194
timed_out(e) == e >= timeout

\* A check after the loop that writes the timeout whatever the count is.
after_loop_unconditional(f, e) == write(f, "failed", f.job.result, "timed out")

\* main.py 194-196: the timeout check after the loop.
after_loop(f, e) ==
    IF timed_out(e) THEN write(f, "failed", f.job.result, "timed out") ELSE f

\* What one round of the loop can meet: a request that raises ApiException,
\* one that raises another exception, or none.
Faults == {"none", "api", "other"}

\* main.py 132-192: what one round of the loop does to the entry, by what the
\* requests return: how the round ends ("break", "raise" to the outer handler,
\* "sleep") and the frame it leaves. For a failed Job, parses says whether the
\* log read of lines 173-177 returned (its exception is swallowed at 178-179).
poll_round(f, state, fault, pods, parses) ==
    CASE fault = "api" ->
           [ends |-> "break", f |-> write(f, "failed", f.job.result, "api")]
      [] fault = "other" ->
           [ends |-> "raise", f |-> outer_except(f)]
      [] fault = "none" /\ state = "succeeded" /\ pods ->
           [ends |-> "break",
            f |-> write(f, "completed", IF parses THEN "json" ELSE "text", f.job.error)]
      [] fault = "none" /\ state = "failed" ->
           [ends |-> "break",
            f |-> write(f, "failed", f.job.result,
                        IF pods /\ parses THEN "logs" ELSE "Job failed")]
      [] OTHER ->
           [ends |-> "sleep", f |-> f]

\* A teardown whose failure reaches the outer handler.
teardown_surfaced(f, delete_raises) == IF delete_raises THEN outer_except(f) ELSE f

\* main.py 198-205: what the delete request does to the entry, raising or not:
\* the handler of line 204 passes.
teardown(f, delete_raises) == f

\* main.py 198-205: the delete request; its failure is ignored.
cleanup(delete_raises) == IF delete_raises THEN "returned_delete_raised" ELSE "returned"

\* main.py 131-209 from the loop test: when the test fails, the timeout check
\* and the delete request; when it holds, one round, which ends in the sleep
\* and the count, in the way out of the loop through the timeout check and the
\* delete request, or in the outer handler. pods: the pod list holds a pod;
\* parses: the pod's log is read and parses as JSON; delete_raises: the delete
\* request raises. An input the step does not read is not varied.
Poll(j, fault, pods, parses, delete_raises) ==
    /\ cpc[j] = "loop"
    /\ fault # "none" => loop_continues(elapsed[j])
    /\ pods => (fault = "none" /\ k8s[j] # "active" /\ loop_continues(elapsed[j]))
    /\ parses => pods
    /\ LET r == IF loop_continues(elapsed[j])
                  THEN poll_round(Frame(j), k8s[j], fault, pods, parses)
                  ELSE [ends |-> "break", f |-> Frame(j)]
           f == IF r.ends = "break"
                  THEN teardown(after_loop(r.f, elapsed[j]), delete_raises)
                  ELSE r.f
       IN  /\ delete_raises => r.ends = "break"
           /\ jobs' = [jobs EXCEPT ![j] = f.job]
           /\ written' = [written EXCEPT ![j] = f.written]
           /\ cpc' = [cpc EXCEPT ![j] = CASE r.ends = "raise" -> "returned_uncleaned"
                                           [] r.ends = "break" -> cleanup(delete_raises)
                                           [] OTHER -> "loop"]
           /\ elapsed' = [elapsed EXCEPT ![j] = IF r.ends = "sleep"
                                                 THEN @ + check_interval ELSE 0]
    /\ UNCHANGED <<k8s, redisVars, callVars, partVars>>

Returned(j) ==
    cpc[j] \in {"returned", "returned_delete_raised", "returned_uncleaned", "returned_uncreated"}

\* The controller's job table and its background tasks.
NextCtl ==
    \/ \E j \in JobIds : submit_job(j)
    \/ \E j \in JobIds, raises \in BOOLEAN : ExecStart(j, raises)
    \/ \E j \in JobIds, how \in {"succeeded", "failed"} : K8sFinish(j, how)
    \/ \E j \in JobIds, fault \in Faults, pods \in BOOLEAN, parses \in BOOLEAN,
          delete_raises \in BOOLEAN :
           Poll(j, fault, pods, parses, delete_raises)

SpecCtl == Init /\ [][NextCtl]_vars

\* The job whose life the single-job specifications follow.
FirstJob == 1

\* One job in the controller, from submit_job to the return of its task.
NextJob ==
    \/ submit_job(FirstJob)
    \/ \E raises \in BOOLEAN : ExecStart(FirstJob, raises)
    \/ \E how \in {"succeeded", "failed"} : K8sFinish(FirstJob, how)
    \/ \E fault \in Faults, pods \in BOOLEAN, parses \in BOOLEAN, delete_raises \in BOOLEAN :
           Poll(FirstJob, fault, pods, parses, delete_raises)

SpecJob == Init /\ [][NextJob]_vars

\* main.py 55, 186: the event loop runs the task that create_task scheduled and
\* resumes it after each sleep.
FairJob ==
    /\ WF_vars(\E raises \in BOOLEAN : ExecStart(FirstJob, raises))
    /\ WF_vars(\E fault \in Faults, pods \in BOOLEAN, parses \in BOOLEAN,
                  delete_raises \in BOOLEAN :
                   Poll(FirstJob, fault, pods, parses, delete_raises))

FairSpecJob == SpecJob /\ FairJob

\* ------------------------------------------------------ the caller's side
Raise(msg) == [kind |-> "RemoteExecutionError", msg |-> msg]

Return(value) == [kind |-> "value", msg |-> <<value>>]

\* A failure message that leaves the job's error out.
failed_message_generic(error) == <<"Job failed">>

\* env.py 251-252
failed_message(error) == <<"Job failed: ", error>>

\* env.py 262
wait_timed_out == Raise(<<"Job ", "FirstJob", " timed out after 300 seconds">>)

\* env.py 259-260
request_failed == Raise(<<"Failed to check job status: ", "RequestError">>)

\* A wait that asks again on a status it does not know.
wait_reply_asks_again(status, result, error) ==
    CASE status = "completed" -> Return(result)
      [] status = "failed" -> Raise(failed_message(error))
      [] OTHER -> NoOut

\* env.py 239-257: what the wait does with a status reply; NoOut when it
\* sleeps and asks again.
wait_reply(status, result, error) ==
    CASE status = "completed" -> Return(result)
      [] status = "failed" -> Raise(failed_message(error))
      [] status \in {"pending", "running"} -> NoOut
      [] OTHER -> Raise(<<"Unknown job status: ", status>>)

\* An expiry of the wait that cancels the remote job.
remote_after_expiry_cancelled(f) == write(f, "failed", f.job.result, "cancelled")

\* env.py 262: the wait raises and sends no request; the job's entry in the
\* controller is as it was.
remote_after_expiry(f) == f

\* env.py 225: the defaults of _wait_for_job, in seconds; line 152 passes
\* neither.
wait_timeout == 300

poll_interval == 1

\* env.py 233: the loop test, on the seconds the rounds have slept so far.
wait_continues(waited) == waited < wait_timeout

\* env.py 149-152, 231: POST /job has answered with the job id and the wait
\* takes its start time.
ClientWait ==
    /\ client.pc = "idle"
    /\ jobs[FirstJob].status # "absent"
    /\ client' = [client EXCEPT !.pc = "waiting"]
    /\ UNCHANGED <<redisVars, ctlVars, call, partVars>>

\* env.py 233-262: one round of the wait. expired: the test of line 233 fails;
\* it reads the wall clock, which counts the requests beside the sleeps, so it
\* can fail at any round but the first. request_raises: the GET raises
\* httpx.RequestError. counted: the seconds slept are kept in client.waited,
\* and the test fails at the latest when they add up to the timeout; without
\* it the clock is left to expired alone.
WaitRound(expired, request_raises, counted) ==
    /\ client.pc = "waiting"
    /\ expired => client.polled
    /\ (counted /\ ~wait_continues(client.waited)) => expired
    /\ request_raises => ~expired
    /\ LET out == CASE expired -> wait_timed_out
                     [] request_raises -> request_failed
                     [] OTHER -> wait_reply(get_job_status(FirstJob),
                                            jobs[FirstJob].result, jobs[FirstJob].error)
           f == IF expired THEN remote_after_expiry(Frame(FirstJob)) ELSE Frame(FirstJob)
       IN  /\ client' = [client EXCEPT
                            !.pc = CASE out = NoOut -> "waiting"
                                     [] out.kind = "value" -> "returned"
                                     [] OTHER -> "raised",
                            !.polled = TRUE,
                            !.waited = IF counted /\ out = NoOut
                                         THEN @ + poll_interval ELSE @,
                            !.out = out]
           /\ jobs' = [jobs EXCEPT ![FirstJob] = f.job]
           /\ written' = [written EXCEPT ![FirstJob] = f.written]
    /\ UNCHANGED <<cpc, elapsed, k8s, redisVars, call, partVars>>

\* The wait with the clock left to the expired input.
ClientPoll(expired, request_raises) == WaitRound(expired, request_raises, FALSE)

\* main.py 212-239: /eval runs the code in the controller and answers with the
\* value or with str(e).
evaluate_code(code) ==
    IF execute_code(code) # None
      THEN [error |-> execute_code(code)]
      ELSE [result |-> "value"]

\* __init__.py 117-128: what the caller does with the answer of /eval.
eval_reply(answer) ==
    IF "error" \in DOMAIN answer THEN Raise(<<answer.error>>) ELSE Return(answer.result)

\* __init__.py 74-135: a call through /eval.
EvalCall(c) ==
    /\ client.pc = "idle"
    /\ client' = [client EXCEPT
                     !.pc = IF eval_reply(evaluate_code(c)).kind = "value"
                              THEN "returned" ELSE "raised",
                     !.code = c,
                     !.out = eval_reply(evaluate_code(c))]
    /\ UNCHANGED <<redisVars, ctlVars, call, partVars>>

\* One job in the controller and its caller.
NextClient ==
    \/ NextJob
    \/ ClientWait
    \/ \E expired \in BOOLEAN, request_raises \in BOOLEAN : ClientPoll(expired, request_raises)
    \/ \E c \in StreamCodes : EvalCall(c)

SpecClient == Init /\ [][NextClient]_vars

\* main.py 32: the job table lives in the memory of the controller's process;
\* when the process starts again the table is empty and the tasks are gone.
ControllerRestart ==
    /\ \E j \in JobIds : jobs[j].status # "absent"
    /\ jobs' = [j \in JobIds |-> NoJobResponse]
    /\ cpc' = [j \in JobIds |-> IF jobs[j].status = "absent" THEN cpc[j] ELSE "gone"]
    /\ elapsed' = [j \in JobIds |-> 0]
    /\ UNCHANGED <<k8s, written, redisVars, callVars, partVars>>

\* The caller's wait with its seconds counted, beside a job whose task is
\* settled by its first round of polling, and a controller that can restart.
NextWait ==
    \/ submit_job(FirstJob)
    \/ \E raises \in BOOLEAN : ExecStart(FirstJob, raises)
    \/ \E how \in {"succeeded", "failed"} : K8sFinish(FirstJob, how)
    \/ \E fault \in Faults, pods \in BOOLEAN, parses \in BOOLEAN, delete_raises \in BOOLEAN :
           Poll(FirstJob, fault, pods, parses, delete_raises) /\ cpc'[FirstJob] # "loop"
    \/ ControllerRestart
    \/ ClientWait
    \/ \E expired \in BOOLEAN, request_raises \in BOOLEAN :
           WaitRound(expired, request_raises, TRUE)

SpecWait == Init /\ [][NextWait]_vars

\* env.py 233-255: every request of the wait returns or raises, and the event
\* loop resumes the wait after each sleep.
FairWait ==
    WF_vars(\E expired \in BOOLEAN, request_raises \in BOOLEAN :
                WaitRound(expired, request_raises, TRUE))

FairSpecWait == SpecWait /\ FairWait

FairSpecClient == SpecClient /\ FairJob

\* -------------------------------------------- one remote call, end to end
\* A Python value is [t, v]: t its type and v the characters of a str (empty
\* for the other types, one value of each standing for the type). A text
\* (source code, output, logs) is the sequence of its characters; a spelling
\* such as "None" or a line of pip's output counts as one character, "\n" is
\* the newline.
Chars == {"a", "'"}

PyStr(cs) == [t |-> "str", v |-> cs]

PyVal(t) == [t |-> t, v |-> <<>>]

Spelling ==
    [int |-> "2", float |-> "1.5", none |-> "None", bool |-> "True",
     tuple |-> "(1, 2)", list |-> "[1, 2]"]

Values ==
    {PyVal(t) : t \in DOMAIN Spelling} \cup
    {PyStr(cs) : cs \in UNION {[1 .. k -> Chars] : k \in 0 .. MaxStr}}

\* What a parse answers for a text it rejects (JSONDecodeError, SyntaxError,
\* NameError).
Fail == PyVal("fail")

\* Python's repr: a str is put in single quotes unless it holds a single
\* quote and no double quote, then in double quotes.
repr(x) ==
    IF x.t = "str"
      THEN IF "'" \in Range(x.v)
             THEN <<"\"">> \o x.v \o <<"\"">>
             ELSE <<"'">> \o x.v \o <<"'">>
      ELSE <<Spelling[x.t]>>

\* text is a string literal in quotes q.
Quoted(text, q) ==
    /\ Len(text) >= 2
    /\ text[1] = q
    /\ text[Len(text)] = q
    /\ \A i \in 2 .. (Len(text) - 1) : text[i] \in Chars \ {q}

Inner(text) == SubSeq(text, 2, Len(text) - 1)

\* json.loads: numbers, arrays and strings in double quotes; nothing else
\* that repr writes is JSON.
json_loads(text) ==
    CASE text = <<"2">> -> PyVal("int")
      [] text = <<"1.5">> -> PyVal("float")
      [] text = <<"[1, 2]">> -> PyVal("list")
      [] Quoted(text, "\"") -> PyStr(Inner(text))
      [] OTHER -> Fail

\* eval of a text: a literal in either kind of quotes, or the spelling of a value.
py_eval(text) ==
    CASE Len(text) = 1 /\ (\E t \in DOMAIN Spelling : text[1] = Spelling[t]) ->
             PyVal(CHOOSE t \in DOMAIN Spelling : text[1] = Spelling[t])
      [] Quoted(text, "'") \/ Quoted(text, "\"") -> PyStr(Inner(text))
      [] OTHER -> Fail

RECURSIVE lstrip(_)
lstrip(text) ==
    IF text # <<>> /\ Head(text) = "\n" THEN lstrip(Tail(text)) ELSE text

RECURSIVE rstrip(_)
rstrip(text) ==
    IF text # <<>> /\ text[Len(text)] = "\n"
      THEN rstrip(SubSeq(text, 1, Len(text) - 1)) ELSE text

\* str.strip
strip(text) == rstrip(lstrip(text))

\* What pip install writes to standard output before the job runs.
pip_output == <<"Successfully installed pkg", "\n">>

\* env.py 127-131: the payload ends with print(repr(result)).
payload_stdout(x) == repr(x) \o <<"\n">>

\* main.py 81-84, 104-107: the container runs "pip install ... &&" before the
\* payload when the request has requirements; its log holds the output of both.
pod_logs(reqs, x) ==
    (IF reqs # <<>> THEN pip_output ELSE <<>>) \o payload_stdout(x)

\* main.py 152-156: the log as JSON, or else as text.
stored_result(logs) ==
    IF json_loads(strip(logs)) # Fail THEN json_loads(strip(logs)) ELSE PyStr(strip(logs))

\* main.py 61-66, env.py 237: the entry as JSON and back; JSON has arrays only.
response_json(x) == IF x.t = "tuple" THEN PyVal("list") ELSE x

\* env.py 242-249: a str result is evaluated, and kept when that raises.
client_decode(x) ==
    IF x.t = "str" /\ py_eval(x.v) # Fail THEN py_eval(x.v) ELSE x

\* env.py 194-222: the requirements found beside the function's file.
Requirements == {<<>>, <<"pkg">>}

CallInputs ==
    {[stage |-> "local", value |-> x, reqs |-> r, logs |-> <<>>, result |-> Fail, got |-> Fail] :
        x \in Values, r \in Requirements}

InitCall == InitBase /\ call \in CallInputs /\ build = NoPart /\ run = NoPart /\ child = NoPart

\* env.py 100-149: the payload is built and POST /job answers.
CallSubmit ==
    /\ call.stage = "local"
    /\ call' = [call EXCEPT !.stage = "submitted"]
    /\ UNCHANGED <<redisVars, ctlVars, client, partVars>>

\* The container of the Kubernetes Job runs to its end.
PodRun ==
    /\ call.stage = "submitted"
    /\ call' = [call EXCEPT !.stage = "logged", !.logs = pod_logs(call.reqs, call.value)]
    /\ UNCHANGED <<redisVars, ctlVars, client, partVars>>

\* main.py 138-160: the succeeded Job's log becomes the result.
StoreResult ==
    /\ call.stage = "logged"
    /\ call' = [call EXCEPT !.stage = "stored", !.result = stored_result(call.logs)]
    /\ UNCHANGED <<redisVars, ctlVars, client, partVars>>

\* env.py 235-249: the status reply says completed and the wait returns.
CallReturn ==
    /\ call.stage = "stored"
    /\ call' = [call EXCEPT !.stage = "returned",
                             !.got = client_decode(response_json(call.result))]
    /\ UNCHANGED <<redisVars, ctlVars, client, partVars>>

NextCall == CallSubmit \/ PodRun \/ StoreResult \/ CallReturn

SpecCall == InitCall /\ [][NextCall]_vars

\* ------------------------------------------ Env.fn: the wrappers, the payload
\* A line of source is the sequence of its tokens: "    " is one level of
\* indentation, "@", "def " and "async def " are the characters a line's text
\* can begin with, any other token is the rest of the line.
Indent == "    "

DecoratorLine == <<"@", "env.fn">>

DefLines == {<<"def ", "f():">>, <<"async def ", "f():">>}

\* The lines a definition's body can hold: a statement, a decorator of a
\* nested definition, a nested definition.
BodyLines == {<<Indent, "return 1">>, <<Indent, "@", "cache">>, <<Indent, "def ", "g():">>}

\* The most lines of body in a captured source.
MaxBody == 2

\* inspect.getsource of a function (env.py 103-104): its decorator lines, if
\* it was defined under any, the line of its def and the lines of its body.
Sources ==
    {d \o <<h>> \o b : d \in {<<>>, <<DecoratorLine>>}, h \in DefLines,
                       b \in UNION {[1 .. k -> BodyLines] : k \in 1 .. MaxBody}}

\* str.strip of a line: the indentation in front of its text is dropped.
RECURSIVE line_strip(_)
line_strip(line) ==
    IF line # <<>> /\ Head(line) = Indent THEN line_strip(Tail(line)) ELSE line

\* str.startswith
startswith(text, prefix) == text # <<>> /\ Head(text) = prefix

\* env.py 107-117: the loop over the lines of the source. A line whose text
\* starts with "@" is skipped wherever it stands; any other line is kept once
\* a line whose text starts with "def " has been met.
RECURSIVE func_lines(_, _)
func_lines(lines, found_def) ==
    IF lines = <<>> THEN <<>>
    ELSE IF startswith(line_strip(Head(lines)), "@")
      THEN func_lines(Tail(lines), found_def)
    ELSE IF startswith(line_strip(Head(lines)), "def ") \/ found_def
      THEN <<Head(lines)>> \o func_lines(Tail(lines), TRUE)
    ELSE func_lines(Tail(lines), found_def)

\* env.py 107-119
clean_source(source) == func_lines(source, FALSE)

\* The arguments of a call: an int, an open file, a function closed over a
\* local, a list that holds itself.
ArgValues == {PyVal("int"), PyVal("handle"), PyVal("closure"), PyVal("cycle")}

ArgLists == {<<>>} \cup {<<a>> : a \in ArgValues}

\* env.py 124-125: repr of an argument; it raises for none of them.
arg_repr(a) ==
    CASE a.t = "handle" -> <<"<_io.TextIOWrapper name='f' mode='r' encoding='UTF-8'>">>
      [] a.t = "closure" -> <<"<function outer.<locals>.inner at 0x7f0000000000>">>
      [] a.t = "cycle" -> <<"[[...]]">>
      [] OTHER -> repr(a)

\* env.py 122-126: the texts between the commas of the call; the model's
\* keyword arguments have the one name k.
call_args(args, kwargs) ==
    [i \in DOMAIN args |-> arg_repr(args[i])] \o
    [i \in DOMAIN kwargs |-> <<"k", "=">> \o arg_repr(kwargs[i])]

\* env.py 127-131
execution_code(source, args, kwargs) ==
    [definition |-> clean_source(source),
     invocation |-> call_args(args, kwargs),
     output |-> "print(repr(result))"]

NoCode == [definition |-> <<>>, invocation |-> <<>>, output |-> ""]

\* A call of a wrapper: through await (inside a running event loop) or through
\* .sync, with or without a running event loop. local is what the Env was
\* constructed with (env.py 17, 29): False by default, True, or a callable;
\* is_local is what the callable returns when it is called now. invoked holds
\* the arguments of each local invocation of the function during this call,
\* result what the call returned, history how the earlier calls ended.
BuildInputs ==
    {[stage |-> "called", via |-> v, in_loop |-> l, source |-> src, args |-> a,
      kwargs |-> k, error |-> "", asyncio_run |-> FALSE, code |-> NoCode, posted |-> FALSE,
      local |-> "False", is_local |-> FALSE, invoked |-> <<>>, result |-> <<>>,
      history |-> <<>>] :
        v \in {"await", "sync"}, l \in BOOLEAN, src \in Sources,
        a \in ArgLists, k \in ArgLists}

InitBuild ==
    /\ InitBase
    /\ call = NoCall
    /\ build \in {b \in BuildInputs : b.via = "await" => b.in_loop}
    /\ run = NoPart
    /\ child = NoPart

\* env.py 55-57: the awaitable wrapper enters _execute_remote.
async_wrapper ==
    /\ build.stage = "called"
    /\ build.via = "await"
    /\ build' = [build EXCEPT !.stage = "remote"]
    /\ UNCHANGED <<redisVars, ctlVars, callVars, run, child>>

\* env.py 64-69, the try block: the RuntimeError it ends with, raised by
\* get_running_loop when no loop runs and by line 67 when one does.
sync_try(in_loop) ==
    IF in_loop THEN "Cannot call sync version from async context. Use 'await' instead."
               ELSE "no running event loop"

\* env.py 70: except RuntimeError catches every RuntimeError of the try block.
sync_except(e) == TRUE

\* asyncio.run: it raises when the thread has a running event loop and runs
\* the coroutine otherwise.
asyncio_run(in_loop) ==
    IF in_loop THEN "asyncio.run() cannot be called from a running event loop" ELSE ""

\* env.py 60-72
sync_wrapper ==
    /\ build.stage = "called"
    /\ build.via = "sync"
    /\ IF sync_except(sync_try(build.in_loop))
         THEN build' = [build EXCEPT
                           !.asyncio_run = TRUE,
                           !.error = asyncio_run(build.in_loop),
                           !.stage = IF asyncio_run(build.in_loop) = "" THEN "remote" ELSE "raised"]
         ELSE build' = [build EXCEPT !.error = sync_try(build.in_loop), !.stage = "raised"]
    /\ UNCHANGED <<redisVars, ctlVars, callVars, run, child>>

\* env.py 79-83
should_run_locally(b) == IF b.local = "callable" THEN b.is_local ELSE b.local = "True"

\* The value the decorated function returns for these arguments.
fn(args, kwargs) == [returned_for |-> <<args, kwargs>>]

\* A local invocation after which the call goes on to the remote path.
local_call_goes_on(b) ==
    [b EXCEPT !.invoked = Append(@, <<b.args, b.kwargs>>),
              !.result = <<fn(b.args, b.kwargs)>>,
              !.stage = "building"]

\* env.py 98: return fn(*args, **kwargs)
local_call(b) ==
    [b EXCEPT !.invoked = Append(@, <<b.args, b.kwargs>>),
              !.result = <<fn(b.args, b.kwargs)>>,
              !.stage = "returned"]

\* env.py 97-98: _execute_remote reads the flag first.
ExecuteRemote ==
    /\ build.stage = "remote"
    /\ build' = IF should_run_locally(build)
                  THEN local_call(build)
                  ELSE [build EXCEPT !.stage = "building"]
    /\ UNCHANGED <<redisVars, ctlVars, callVars, run, child>>

\* env.py 100-131: the payload is built.
BuildPayload ==
    /\ build.stage = "building"
    /\ build' = [build EXCEPT !.stage = "built",
                               !.code = execution_code(build.source, build.args, build.kwargs)]
    /\ UNCHANGED <<redisVars, ctlVars, callVars, run, child>>

\* env.py 138-149: POST /job with the payload.
PostJob ==
    /\ build.stage = "built"
    /\ build' = [build EXCEPT !.stage = "submitted", !.posted = TRUE]
    /\ UNCHANGED <<redisVars, ctlVars, callVars, run, child>>

NextBuild == async_wrapper \/ sync_wrapper \/ ExecuteRemote \/ BuildPayload \/ PostJob

SpecBuild == InitBuild /\ [][NextBuild]_vars

\* playground/example.py 15-19: a function of one statement under @env.fn.
PlainSource == <<DecoratorLine, <<"def ", "f():">>, <<Indent, "return 1">>>>

\* The most calls of one wrapper that are followed.
MaxCalls == 2

\* playground/example.py 9-12, 22-31: calls of the wrapper of an Env built
\* with False, True or a callable for should_run_locally.
LocalInputs ==
    {[b EXCEPT !.local = l, !.is_local = e] :
        b \in {i \in BuildInputs : i.source = PlainSource /\ (i.via = "await" => i.in_loop)},
        l \in {"False", "True", "callable"}, e \in BOOLEAN}

InitLocal ==
    /\ InitBase
    /\ call = NoCall
    /\ build \in LocalInputs
    /\ run = NoPart
    /\ child = NoPart

\* How a call that is over ended.
ended(b) ==
    CASE b.stage = "returned" -> "local"
      [] b.stage = "submitted" -> "remote"
      [] OTHER -> "raised"

\* playground/example.py 24-30: the call is over and the wrapper is called
\* again with the same arguments; is_local is what the callable will return
\* this time (the example sets IS_LOCAL between its two calls).
CallAgain(is_local) ==
    /\ build.stage \in {"returned", "submitted", "raised"}
    /\ Len(build.history) + 1 < MaxCalls
    /\ build' = [build EXCEPT !.stage = "called",
                               !.is_local = is_local,
                               !.history = Append(@, ended(build)),
                               !.invoked = <<>>,
                               !.result = <<>>,
                               !.error = "",
                               !.asyncio_run = FALSE,
                               !.code = NoCode,
                               !.posted = FALSE]
    /\ UNCHANGED <<redisVars, ctlVars, callVars, run, child>>

NextLocal == NextBuild \/ \E is_local \in BOOLEAN : CallAgain(is_local)

SpecLocal == InitLocal /\ [][NextLocal]_vars

\* ------------------------------------- celery_worker.py: the child process
\* What the child wrote is a text of lines, each line one character followed by
\* "\n". The wrapper's last statement prints one line, json.dumps(result)
\* (celery_worker.py 101); SuccessLine and FailureLine are that line for the
\* two results of lines 82-96, ScalarLine is JSON that is no object, EmptyObject
\* an object without a success field, and "noise" is text that is not JSON.
SuccessLine == "{\"success\": true, \"return_value\": 2, \"stdout\": \"\", \"stderr\": null}"

FailureLine == "{\"success\": false, \"error\": \"division by zero\", \"stdout\": \"\", \"stderr\": null}"

ScalarLine == "5"

EmptyObject == "{}"

\* An execution result: shape is "object" or "scalar", success is "True",
\* "False" or None for an object without the field, error the parts of the
\* message, stdout and stderr the texts carried.
Result(shape, success, error, stdout, stderr) ==
    [shape |-> shape, success |-> success, error |-> error, stdout |-> stdout, stderr |-> stderr]

\* json.loads of one line.
line_loads(line) ==
    CASE line = SuccessLine -> Result("object", "True", <<>>, <<>>, <<>>)
      [] line = FailureLine -> Result("object", "False", <<"division by zero">>, <<>>, <<>>)
      [] line = ScalarLine -> Result("scalar", None, <<>>, <<>>, <<>>)
      [] line = EmptyObject -> Result("object", None, <<>>, <<>>, <<>>)

\* celery_worker.py 114: json.loads(result.stdout.strip()) raises
\* JSONDecodeError unless what is left is one line of JSON.
parseable(stdout) ==
    /\ Len(strip(stdout)) = 1
    /\ strip(stdout)[1] \in {SuccessLine, FailureLine, ScalarLine, EmptyObject}

\* celery_worker.py 115-121
parse_failure(stdout, stderr) ==
    Result("object", "False", <<"Failed to parse execution result">>, stdout, stderr)

\* A result for a non-zero exit that is built like the one for a parse failure.
exit_failure_as_parse(returncode, stdout, stderr) == parse_failure(stdout, stderr)

\* celery_worker.py 122-128
exit_failure(returncode, stdout, stderr) ==
    Result("object", "False", <<"Process failed with code ", ToString(returncode)>>, stdout, stderr)

\* celery_worker.py 111-128
execution_result(returncode, stdout, stderr) ==
    IF returncode = 0
      THEN IF parseable(stdout) THEN line_loads(strip(stdout)[1])
                                ELSE parse_failure(stdout, stderr)
      ELSE exit_failure(returncode, stdout, stderr)

\* celery_worker.py 139-141
error_result(e) == Result("object", "False", <<e>>, <<>>, <<>>)

\* celery_worker.py 136: execution_result["success"] raises on a result that
\* is no object (TypeError) or has no such key (KeyError).
subscript_raises(r) ==
    CASE r.shape # "object" -> "TypeError"
      [] r.success = None -> "KeyError"
      [] OTHER -> ""

ReturnCodes == {0, 1, 2}

Stdouts ==
    {<<>>, <<"noise", "\n">>, <<SuccessLine, "\n">>, <<FailureLine, "\n">>,
     <<"noise", "\n", SuccessLine, "\n">>, <<ScalarLine, "\n">>, <<EmptyObject, "\n">>}

Stderrs == {<<>>, <<"Traceback", "\n">>}

\* A task whose child process is running: how subprocess.run will end and,
\* when the child exits in time, what it leaves.
ChildInputs ==
    {[stage |-> "running", ends |-> "exit", returncode |-> rc, stdout |-> out,
      stderr |-> err, published |-> <<>>] :
        rc \in ReturnCodes, out \in Stdouts, err \in Stderrs}
    \cup
    {[stage |-> "running", ends |-> "timeout", returncode |-> 0, stdout |-> <<>>,
      stderr |-> <<>>, published |-> <<>>]}

InitChild ==
    /\ InitBase
    /\ call = NoCall
    /\ build = NoPart
    /\ run = NoPart
    /\ child \in ChildInputs

\* celery_worker.py 107-131: the child exits within the timeout and the
\* result is published.
ChildExit ==
    /\ child.stage = "running"
    /\ child.ends = "exit"
    /\ child' = [child EXCEPT
                    !.stage = "published",
                    !.published = <<execution_result(child.returncode, child.stdout, child.stderr)>>]
    /\ UNCHANGED <<redisVars, ctlVars, callVars, build, run>>

\* celery_worker.py 107-109, 139-148: subprocess.run raises TimeoutExpired
\* and the outer handler publishes.
ChildTimeout ==
    /\ child.stage = "running"
    /\ child.ends = "timeout"
    /\ child' = [child EXCEPT !.stage = "returned_error",
                               !.published = <<error_result("TimeoutExpired")>>]
    /\ UNCHANGED <<redisVars, ctlVars, callVars, build, run>>

\* celery_worker.py 133-148: the task's return value is built; when the
\* subscript of line 136 raises, the outer handler publishes a second result.
ChildReturn ==
    /\ child.stage = "published"
    /\ IF subscript_raises(child.published[1]) = ""
         THEN child' = [child EXCEPT !.stage = "returned"]
         ELSE child' = [child EXCEPT
                           !.stage = "returned_error",
                           !.published = Append(@, error_result(subscript_raises(child.published[1])))]
    /\ UNCHANGED <<redisVars, ctlVars, callVars, build, run>>

NextChild == ChildExit \/ ChildTimeout \/ ChildReturn

SpecChild == InitChild /\ [][NextChild]_vars

\* --------------------------- execute_code and /eval: the value of a payload
\* A payload is the sequence of its lines, each a statement of its own, and a
\* line the sequence of its tokens:
\*   CallLine    an expression statement, a call with an effect
\*   BindLine    an assignment to the name result
\*   ImportLine  an import
\*   PopLine     an expression that can be evaluated once: the second
\*               evaluation raises (q.pop() on a list of one, next(it))
\*   RaiseLine   a statement that raises
CallLine == <<"f()">>

BindLine == <<"result", " = ", "5">>

ImportLine == <<"import ", "os">>

PopLine == <<"q.pop()">>

RaiseLine == <<"raise ", "ValueError('no')">>

PayloadLines == {CallLine, BindLine, ImportLine, PopLine, RaiseLine}

\* The most lines in a payload.
MaxLines == 2

\* The payloads of a job, the one without text included (a code of blanks
\* passes the test of roam_worker.py 53).
Payloads == UNION {[1 .. k -> PayloadLines] : k \in 0 .. MaxLines}

\* roam_worker.py 97
Keywords == {"import ", "from ", "def ", "class ", "if ", "for ", "while ", "with ", "try:"}

keyword_start(line) == \E k \in Keywords : startswith(line, k)

\* The interpreter after some lines: how often each line has run, the value
\* bound to result (None when unbound), whether the one value of PopLine is
\* taken, and the exception raised ("" when none).
Fresh(payload) ==
    [counts |-> [i \in DOMAIN payload |-> 0], result |-> None, popped |-> FALSE, raised |-> ""]

\* Line i is run as a statement.
exec_line(st, i, line) ==
    LET ran == [st EXCEPT !.counts[i] = @ + 1]
    IN  CASE line = BindLine -> [ran EXCEPT !.result = "5"]
          [] line = PopLine -> IF st.popped THEN [ran EXCEPT !.raised = "IndexError"]
                                            ELSE [ran EXCEPT !.popped = TRUE]
          [] line = RaiseLine -> [ran EXCEPT !.raised = "no"]
          [] OTHER -> ran

\* exec of the payload from line i on: the lines run in order until one raises.
RECURSIVE exec_from(_, _, _)
exec_from(st, payload, i) ==
    IF i > Len(payload) \/ st.raised # "" THEN st
    ELSE exec_from(exec_line(st, i, payload[i]), payload, i + 1)

\* roam_worker.py 90, main.py 220
exec(payload) == exec_from(Fresh(payload), payload, 1)

\* eval of line i as an expression: a statement is a SyntaxError and does not
\* run; an expression runs once more.
eval_line(st, i, line) ==
    LET ran == [st EXCEPT !.counts[i] = @ + 1]
    IN  CASE line = CallLine -> [st |-> ran, value |-> "value of f()", raised |-> ""]
          [] line = PopLine ->
               IF st.popped THEN [st |-> ran, value |-> None, raised |-> "IndexError"]
                            ELSE [st |-> [ran EXCEPT !.popped = TRUE],
                                  value |-> "value of q.pop()", raised |-> ""]
          [] OTHER -> [st |-> st, value |-> None, raised |-> "SyntaxError"]

\* roam_worker.py 93-94, main.py 224-225: the last line, stripped.
last_line(payload) == IF payload = <<>> THEN <<>> ELSE Last(payload)

\* A worker that looks for the binding of result before it tries the last line.
after_exec_binding_first(st, payload) ==
    LET ev == eval_line(st, Len(payload), last_line(payload))
    IN  IF st.result # None
          THEN [st |-> st, returned |-> st.result]
        ELSE IF last_line(payload) # <<>> /\ ~keyword_start(last_line(payload)) /\ ev.raised = ""
          THEN [st |-> ev.st, returned |-> ev.value]
        ELSE [st |-> st, returned |-> None]

\* roam_worker.py 93-105: what execute_code does after exec and what it returns.
after_exec(st, payload) ==
    LET ev == eval_line(st, Len(payload), last_line(payload))
    IN  IF last_line(payload) # <<>> /\ ~keyword_start(last_line(payload))
          THEN IF ev.raised = ""
                 THEN [st |-> ev.st, returned |-> ev.value]
                 ELSE [st |-> ev.st, returned |-> ev.st.result]
          ELSE [st |-> st, returned |-> st.result]

\* main.py 224-236: what /eval does after exec and the result it answers with
\* (no line of a payload here is a comment).
after_exec_eval(st, payload) ==
    LET ev == eval_line(st, Len(payload), last_line(payload))
    IN  IF last_line(payload) # <<>> /\ ~startswith(last_line(payload), "#")
          THEN IF ev.raised = ""
                 THEN [st |-> ev.st, returned |-> ev.value]
                 ELSE [st |-> ev.st, returned |-> None]
          ELSE [st |-> st, returned |-> None]

\* A payload handed to execute_code of the worker or to /eval.
RunInputs ==
    {[stage |-> "start", by |-> b, payload |-> p, st |-> Fresh(p), returned |-> None] :
        b \in {"worker", "eval"}, p \in Payloads}

InitRun ==
    /\ InitBase
    /\ call = NoCall
    /\ build = NoPart
    /\ run \in RunInputs
    /\ child = NoPart

\* roam_worker.py 90, main.py 220: exec runs the payload; an exception leaves
\* execute_code (and is answered as an error by /eval).
RunExec ==
    /\ run.stage = "start"
    /\ run' = [run EXCEPT !.st = exec(run.payload),
                           !.stage = IF exec(run.payload).raised # "" THEN "raised" ELSE "executed"]
    /\ UNCHANGED <<redisVars, ctlVars, callVars, build, child>>

\* roam_worker.py 93-105, main.py 224-236
RunLastLine ==
    /\ run.stage = "executed"
    /\ LET r == IF run.by = "worker" THEN after_exec(run.st, run.payload)
                                     ELSE after_exec_eval(run.st, run.payload)
       IN  run' = [run EXCEPT !.st = r.st, !.returned = r.returned, !.stage = "done"]
    /\ UNCHANGED <<redisVars, ctlVars, callVars, build, child>>

NextRun == RunExec \/ RunLastLine

SpecRun == InitRun /\ [][NextRun]_vars

\* ------------------------------------------------------------------ claims
\* C1: jobs are dequeued in submission order: if A's enqueue completed before
\* B's began and B has been dequeued, A was dequeued before B.
C1_FifoOrder ==
    \A i, j \in DOMAIN enq :
        (i < j /\ enq[j] \in Range(deq)) =>
            \E a, b \in DOMAIN deq : a < b /\ deq[a] = enq[i] /\ deq[b] = enq[j]

\* C2: every enqueued job is handed to at most one worker: no task id is
\* returned by two pops, no two workers hold the same job, and a job a worker
\* holds (a crashed worker too) is not on the queue for another pop.
C2_AtMostOneWorker ==
    /\ \A i, j \in DOMAIN deq : i # j => deq[i] # deq[j]
    /\ \A v, w \in Workers :
           (v # w /\ wjob[v] # NoJob /\ wjob[w] # NoJob) => wjob[v].task_id # wjob[w].task_id
    /\ \A w \in Workers, i \in DOMAIN queue :
           wjob[w] # NoJob => queue[i].task_id # wjob[w].task_id

\* A worker crashed holding its job and another worker went on to pop a later job.
C2_Witness ==
    \E v, w \in Workers :
        /\ wpc[v] = "crashed" /\ wjob[v] # NoJob
        /\ wpc[w] = "try" /\ wjob[w] # NoJob
        /\ Len(deq) = 2 /\ deq[1] = wjob[v].task_id /\ deq[2] = wjob[w].task_id

\* C3: at most one Outcome is ever published on a job's result channel.
C3_OneOutcomePerJob == \A t \in TaskIds : Len(Outcomes(t)) <= 1

\* Task t was submitted: its submit_task returned a job id.
Submitted(t) == t \in Range(enq)

\* The worker that popped task t has published an Outcome for it and let go of it.
Finished(t) ==
    /\ t \in Range(deq)
    /\ Len(Outcomes(t)) >= 1
    /\ \A w \in Workers : wjob[w].task_id # t

\* A status lookup of the task service answers in this step, the store reachable.
TaskReply(t) ==
    /\ reply' # reply
    /\ reply'.api = "get_task_status"
    /\ reply'.id = t
    /\ reply'.status # "error"

\* C9: after the worker has finished job j, get_task_status(j) returns
\* completed, not running.
C9_StatusStoreWritten ==
    [][\A t \in TaskIds : (Finished(t) /\ TaskReply(t)) => reply'.status = "completed"]_vars

\* C10: a status query for an id that was never submitted returns not_found.
C10_UnknownIdNotFound ==
    [][\A t \in AllIds : (~Submitted(t) /\ TaskReply(t)) => reply'.status = "not_found"]_vars

\* The events of stream s begin with one connected event naming its task id
\* and hold no other connected event.
ConnectedFirst(s) ==
    /\ events[s] # <<>>
    /\ events[s][1] = Event("connected", stask[s], NoMsg)
    /\ \A i \in DOMAIN events[s] : i > 1 => events[s][i].type # "connected"

\* The result event at place i of stream s is followed at once by a complete
\* event: the next event is complete, or the generator stands right after the
\* result and has not emitted its next event yet.
CompleteFollows(s, i) ==
    IF i < Len(events[s])
      THEN events[s][i + 1].type = "complete"
      ELSE spc[s] = "after_result"

Delivered(s) ==
    /\ spc[s] = "done"
    /\ Len(events[s]) >= 3
    /\ Last(events[s]).type = "complete"
    /\ events[s][Len(events[s]) - 1].type = "result"

\* The stream has ended with an error event (a fault of the channel).
Faulted(s) == spc[s] = "done" /\ Last(events[s]).type = "error"

\* C8: a caller that subscribes to a job's stream after the worker published
\* the job's Outcome (the stream has emitted connected and has yet to
\* subscribe) still receives result followed by complete and the stream ends,
\* unless the channel faults; it does not wait for ever.
C8_LateSubscriberServed ==
    \A s \in Streams :
        (spc[s] = "connected" /\ Len(Outcomes(stask[s])) >= 1)
            ~> (Delivered(s) \/ Faulted(s))

\* The table entry of a submitted job is what was written to it last.
TableHoldsLastWrite(j) == written[j] # <<>> => jobs[j] = Last(written[j])

\* C4: once a job's entry is terminal (completed or failed), no later write of
\* execute_job changes its status, result or error.
C4_TerminalIsFinal ==
    \A j \in JobIds :
        /\ TableHoldsLastWrite(j)
        /\ \A i, k \in DOMAIN written[j] :
               (i < k /\ written[j][i].status \in Terminal) => written[j][k] = written[j][i]

\* A job completed, then went through the timeout check and a delete request
\* that raised.
C4_Witness ==
    \E j \in JobIds : cpc[j] = "returned_delete_raised" /\ jobs[j].status = "completed"

\* C5: a job is pending when submit_job returns it, running is written before
\* any terminal status, pending is never followed by a terminal status and
\* nothing is followed by pending.
C5_StateMachine ==
    \A j \in JobIds :
        /\ TableHoldsLastWrite(j)
        /\ cpc[j] = "created" => jobs[j].status = "pending"
        /\ written[j] # <<>> => written[j][1].status = "pending"
        /\ \A i \in DOMAIN written[j] : i > 1 =>
               /\ written[j][i].status # "pending"
               /\ written[j][i - 1].status = "pending" => written[j][i].status = "running"
               /\ written[j][i].status \in Terminal =>
                      \E k \in 1 .. (i - 1) : written[j][k].status = "running"

\* A job whose create request raised: pending, running, failed.
C5_Witness ==
    \E j \in JobIds :
        /\ cpc[j] = "returned_uncreated"
        /\ Len(written[j]) = 3
        /\ written[j][2].status = "running"
        /\ written[j][3].status = "failed"

\* The task of job j takes its step from the loop test with the overall
\* timeout used up.
Expires(j) == cpc[j] = "loop" /\ elapsed[j] >= timeout /\ cpc'[j] # cpc[j]

\* C6 as stated: a job whose execution has not finished when the overall
\* timeout expires ends with status timed_out.
C6_EndsTimedOut ==
    [][\A j \in JobIds : (Expires(j) /\ k8s[j] = "active") => jobs'[j].status = "timed_out"]_vars

\* What execute_job does in the case of C6: a job whose execution has not
\* finished when the overall timeout expires ends with status failed and the
\* timeout error, never with completed.
C6_EndsFailedTimeout ==
    [][\A j \in JobIds : (Expires(j) /\ k8s[j] = "active") =>
            /\ jobs'[j] = JobResponse("failed", None, "timed out")
            /\ Returned(j)']_vars

\* A job still active in the cluster has returned with the timeout error.
C6_Witness ==
    \E j \in JobIds :
        Returned(j) /\ k8s[j] = "active" /\ jobs[j] = JobResponse("failed", None, "timed out")

\* The payload of the job raises, or the job has no code.
Fails(code) == code = "" \/ execute_code(code) # None

\* Worker w takes a step of its own with a job that fails (the death of the
\* worker process is no step of the program).
FailingJobStep(w) ==
    /\ wpc[w] \in {"try", "except"}
    /\ Fails(wjob[w].code)
    /\ wpc'[w] # wpc[w]
    /\ wpc'[w] # "crashed"

\* C11: for every dequeued job whose payload raises or whose code is empty
\* the worker publishes an Outcome with success false for that job and then
\* returns to the blocking dequeue; the loop never stops because of a job.
C11_ErrorsBecomeOutcomes ==
    [][\A w \in Workers : FailingJobStep(w) =>
          /\ wpc'[w] \in {"except", "blpop"}
          /\ wpc'[w] = "blpop" =>
                /\ Len(sent'[wjob[w].task_id]) = Len(sent[wjob[w].task_id]) + 1
                /\ Last(sent'[wjob[w].task_id]).success = "False"]_vars

\* C17: when a payload writes to standard output and then raises, the failure
\* Outcome the worker publishes carries that output in its stdout field.
C17_StdoutPreserved ==
    [][\A w \in Workers :
          (wpc[w] = "except" /\ sent'[wjob[w].task_id] # sent[wjob[w].task_id]) =>
              Last(sent'[wjob[w].task_id]).stdout = stdout_of(wjob[w].code)]_vars

\* The places of stream s whose event is a result carrying an Outcome.
OutcomeResults(s) ==
    {i \in DOMAIN events[s] : events[s][i].type = "result" /\ IsOutcome(events[s][i].data)}

\* C18: no event is emitted on a connection after a complete event or after an
\* error event, the generator has ended once it has emitted one of them, and a
\* connection emits at most one result event carrying an Outcome.
C18_StreamEnds ==
    \A s \in Streams :
        /\ \A i \in DOMAIN events[s] :
               events[s][i].type \in {"complete", "error"} =>
                   (i = Len(events[s]) /\ spc[s] = "done")
        /\ Cardinality(OutcomeResults(s)) <= 1

\* A stream ended with result and complete, and a second Outcome was published
\* on its channel afterwards.
C18_Witness ==
    \E s \in Streams : Delivered(s) /\ Len(Outcomes(stask[s])) = 2

\* The Outcomes Redis has handed to the subscription of stream s, read or not.
Received(s) ==
    SelectSeq(inbox[s], IsOutcome) \o
    SelectSeq([i \in DOMAIN events[s] |-> events[s][i].data], IsOutcome)

\* C19: the Outcome of job j is published only on the channel derived from j
\* and recorded only under j: a subscriber for job k receives no more Outcomes
\* than were published for k and every one of them was published for k, and
\* the Status Store holds nothing under k while k has no Outcome.
C19_JobsIndependent ==
    /\ \A s \in Streams :
           /\ Len(Received(s)) <= Len(Outcomes(stask[s]))
           /\ Range(Received(s)) \subseteq Range(Outcomes(stask[s]))
    /\ \A t \in AllIds : Outcomes(t) = <<>> => kv[t] = None

\* Two jobs are outstanding, the worker is about to publish the Outcome of one
\* and a stream is subscribed to the channel of the other.
C19_Witness ==
    \E s \in Streams :
        /\ spc[s] = "listening"
        /\ stask[s] \in Range(enq)
        /\ Outcomes(stask[s]) = <<>>
        /\ wpc[StreamWorker] \in {"publish", "except"}
        /\ wjob[StreamWorker].task_id # stask[s]

\* C15: every job whose enqueue has returned is eventually dequeued by some
\* worker while the worker loops keep running, even while submitters keep
\* enqueuing new jobs.
C15_EventuallyDequeued ==
    \A t \in TaskIds : (t \in Range(enq)) ~> (t \in Range(deq))

\* A request of the step raises ApiException where the loop's handler catches
\* it: reading the status, listing the pods, reading the logs of a succeeded Job.
ApiErrorInRound(j) == \E dr \in BOOLEAN : Poll(j, "api", FALSE, FALSE, dr)

\* The log read of a failed Job raises.
LogReadOfFailedRaises(j) ==
    k8s[j] = "failed" /\ \E dr \in BOOLEAN : Poll(j, "none", TRUE, FALSE, dr)

\* The configuration or the create request raises.
CreateRaises(j) == ExecStart(j, TRUE)

EventuallyTerminal ==
    \A j \in JobIds : (jobs[j].status # "absent") ~> (jobs[j].status \in Terminal)

\* C16 as stated: every job created by submit_job eventually reaches a terminal
\* status, and an orchestration API error at any step (creating the unit,
\* reading status, listing pods, reading logs) moves the job to failed with
\* that error recorded.
C16_NoHangApiErrorRecorded ==
    /\ EventuallyTerminal
    /\ [][\A j \in JobIds :
             (CreateRaises(j) \/ ApiErrorInRound(j) \/ LogReadOfFailedRaises(j)) =>
                 /\ jobs'[j].status = "failed"
                 /\ jobs'[j].error \in {"api", "exception"}]_vars

\* C16 amended: every job created by submit_job eventually reaches a terminal
\* status; an orchestration API error while creating the unit, reading its
\* status, listing pods or reading the logs of a succeeded unit moves the job
\* to failed with that error recorded, and an error reading the logs of a
\* failed unit leaves the job failed with the error "Job failed".
C16_NoHangApiErrorFails ==
    /\ EventuallyTerminal
    /\ [][\A j \in JobIds :
             /\ (CreateRaises(j) \/ ApiErrorInRound(j)) =>
                    /\ jobs'[j].status = "failed"
                    /\ jobs'[j].error \in {"api", "exception"}
             /\ LogReadOfFailedRaises(j) =>
                    jobs'[j] = JobResponse("failed", None, "Job failed")]_vars

\* A job has ended failed on an ApiException met while it was polled.
C16_Witness ==
    \E j \in JobIds : Returned(j) /\ jobs[j] = JobResponse("failed", None, "api")

\* C20: a delete request for the created unit is issued on every path of
\* execute_job that follows its creation, whatever the outcome.
C20_TeardownAlways ==
    \A j \in JobIds :
        (Returned(j) /\ k8s[j] # "none") =>
            cpc[j] \in {"returned", "returned_delete_raised"}

\* The caller's wait ends in this step on a status reply that reports the job
\* failed.
FailureReply ==
    /\ client.pc = "waiting"
    /\ client'.pc # "waiting"
    /\ client'.out \notin {wait_timed_out, request_failed}
    /\ jobs[FirstJob].status = "failed"

\* The caller makes a call through /eval whose payload raises.
FailedEvalCall ==
    /\ client.pc = "idle"
    /\ client'.code # "none"
    /\ execute_code(client'.code) # None

\* C13: when the remote execution of a call fails with error message m, the
\* caller's call raises RemoteExecutionError whose message contains m
\* unchanged, and never returns a value (through the job table and through
\* /eval).
C13_ErrorReachesCaller ==
    [][(FailureReply =>
            /\ client'.pc = "raised"
            /\ client'.out.kind = "RemoteExecutionError"
            /\ jobs[FirstJob].error \in Range(client'.out.msg))
       /\ (FailedEvalCall =>
            /\ client'.pc = "raised"
            /\ client'.out.kind = "RemoteExecutionError"
            /\ execute_code(client'.code) \in Range(client'.out.msg))
       /\ ((client.pc = "waiting" /\ client'.pc = "returned") =>
            jobs[FirstJob].status = "completed")]_vars

\* The caller has been told of a job that failed with its pod's logs as error.
C13_Witness ==
    /\ client.pc = "raised"
    /\ client.out = Raise(<<"Job failed: ", "logs">>)
    /\ jobs[FirstJob].error = "logs"

\* C14: expiry of the caller's wait raises a timeout error to the caller and
\* leaves the remote job untouched: no step of the caller changes the job, and
\* the job goes on to its own completion, failure or timeout.
C14_ExpiryLeavesJob ==
    /\ [][client' # client => <<jobs, cpc, elapsed, k8s, written>>' =
                                <<jobs, cpc, elapsed, k8s, written>>]_vars
    /\ (client.out = wait_timed_out) ~> (jobs[FirstJob].status \in Terminal)

\* The caller's wait has expired while the task of its job is still polling.
C14_Witness ==
    /\ client.pc = "raised"
    /\ client.out = wait_timed_out
    /\ cpc[FirstJob] = "loop"
    /\ jobs[FirstJob].status = "running"

\* C12: for every deterministic, side-effect-free function and arguments the
\* awaited call returns a value equal to the function's local result, also
\* when a requirements list is installed before the run.
C12_RemoteEqualsLocal ==
    call.stage = "returned" => call.got = call.value

\* The captured source without the decorator lines it begins with.
RECURSIVE MinusLeadingDecorators(_)
MinusLeadingDecorators(source) ==
    IF source # <<>> /\ startswith(Head(source), "@")
      THEN MinusLeadingDecorators(Tail(source))
      ELSE source

\* C21: the definition part of the built payload is the captured source minus
\* its leading decorator lines: every line of the callable's definition and
\* body is kept, in order, whatever the body holds.
C21_OnlyDecorationRemoved ==
    build.stage \in {"built", "submitted"} =>
        build.code.definition = MinusLeadingDecorators(build.source)

\* The argument has no safe literal form.
Unserializable(a) == a.t \in {"handle", "closure", "cycle"}

HasUnserializable(b) ==
    \/ \E i \in DOMAIN b.args : Unserializable(b.args[i])
    \/ \E i \in DOMAIN b.kwargs : Unserializable(b.kwargs[i])

\* C22: when a positional or keyword argument has no safe literal form,
\* building the payload fails with UnserializableArgument and no job is
\* submitted.
C22_UnserializableFailsLoudly ==
    (build.stage # "none" /\ HasUnserializable(build)) =>
        /\ ~build.posted
        /\ build.stage \notin {"built", "submitted"}
        /\ build.stage = "raised" => build.error = "UnserializableArgument"

\* C25: .sync called while an event loop is running fails with the error
\* 'Cannot call sync version from async context' and makes no attempt at a
\* nested asyncio.run of the remote call.
C25_SyncFailsExplicitly ==
    (build.stage \notin {"none", "called"} /\ build.via = "sync" /\ build.in_loop) =>
        /\ build.stage = "raised"
        /\ build.error = "Cannot call sync version from async context. Use 'await' instead."
        /\ ~build.asyncio_run

\* The submit_task call that was given the id t ends in this step.
SubmitEnds(t, outcome) == calls[t] = "none" /\ calls'[t] = outcome

ReadsNonJson(s) == StreamReceive(s) /\ Head(inbox[s]).shape = "nonjson"

\* Redis has handed the subscription of stream s a message that is not JSON
\* and, after it, an Outcome; the stream has read neither.
OutcomeBehindNonJson(s) ==
    /\ spc[s] = "listening"
    /\ Len(inbox[s]) >= 2
    /\ inbox[s][1].shape = "nonjson"
    /\ IsOutcome(inbox[s][2])

\* The stream has ended with the result event of an Outcome and the complete event.
DeliveredOutcome(s) ==
    /\ Delivered(s)
    /\ IsOutcome(events[s][Len(events[s]) - 1].data)

C26_ExecutionBounded ==
    \A t \in TaskIds : (t \in Range(deq)) ~> Finished(t)

\* What the round of job j that leaves the loop, and the timeout check after
\* it, leave of the entry: the entry as the teardown attempt finds it.
BeforeTeardown(j, fault, pods, parses) ==
    after_loop(IF loop_continues(elapsed[j])
                 THEN poll_round(Frame(j), k8s[j], fault, pods, parses).f
                 ELSE Frame(j),
               elapsed[j])

\* C28: when the delete request at the end of execute_job raises, the job's
\* status, result and error are what they were before the teardown attempt,
\* and no write of them is made.
C28_TeardownFailureInvisible ==
    [][\A j \in JobIds, fault \in Faults, pods \in BOOLEAN, parses \in BOOLEAN :
          Poll(j, fault, pods, parses, TRUE) =>
              /\ jobs'[j] = BeforeTeardown(j, fault, pods, parses).job
              /\ written'[j] = BeforeTeardown(j, fault, pods, parses).written]_vars

\* A job timed out and the delete request that followed raised.
C28_Witness ==
    \E j \in JobIds :
        /\ cpc[j] = "returned_delete_raised"
        /\ jobs[j].status = "failed"
        /\ jobs[j].error = "timed out"

\* The child of the task has exited and the task has published its result.
ChildExited == child.stage \in {"published", "returned", "returned_error"} /\ child.ends = "exit"

\* The child's standard output is one line that holds an Outcome.
OutcomeLine(stdout) ==
    /\ Len(strip(stdout)) = 1
    /\ strip(stdout)[1] \in {SuccessLine, FailureLine}

\* r is a failure Outcome that carries the raw output of the child.
RawFailure(r) ==
    /\ r.success = "False"
    /\ r.stdout = child.stdout
    /\ r.stderr = child.stderr

\* The error of r names the exit code; the error of r names the parse.
ExitCause(r) == r.error = <<"Process failed with code ", ToString(child.returncode)>>

ParseCause(r) == r.error = <<"Failed to parse execution result">>

\* C27: a child that exits non-zero and a child that exits zero with output
\* that does not parse give failure Outcomes with different causes, each with
\* the raw stdout and stderr; a child that exits zero with an Outcome line
\* gives that Outcome and nothing else.
C27_ChildFailuresDistinct ==
    ChildExited =>
        /\ child.returncode # 0 =>
               /\ RawFailure(child.published[1])
               /\ ExitCause(child.published[1])
               /\ ~ParseCause(child.published[1])
        /\ (child.returncode = 0 /\ ~parseable(child.stdout)) =>
               /\ RawFailure(child.published[1])
               /\ ParseCause(child.published[1])
               /\ ~ExitCause(child.published[1])
        /\ (child.returncode = 0 /\ OutcomeLine(child.stdout)) =>
               /\ child.published = <<line_loads(strip(child.stdout)[1])>>
               /\ IsOutcome(child.published[1])

\* A child exited non-zero after it had printed an Outcome line, and the task
\* has returned.
C27_Witness ==
    /\ child.stage = "returned"
    /\ child.returncode = 2
    /\ OutcomeLine(child.stdout)
    /\ child.stderr # <<>>

\* C29: every statement of a payload is executed exactly once per job, under
\* execute_code of the worker and under /eval: no line, the last one included,
\* runs more than once, and every line has run once when the payload ran to
\* its end.
C29_EachStatementOnce ==
    run.stage \in {"executed", "raised", "done"} =>
        \A i \in DOMAIN run.payload :
            /\ run.st.counts[i] <= 1
            /\ run.stage = "done" => run.st.counts[i] = 1

\* The last line of the payload does not start with a keyword and evaluates
\* without error after the payload has run; the value it then has.
LastLineEvaluates(payload) ==
    /\ last_line(payload) # <<>>
    /\ ~keyword_start(last_line(payload))
    /\ eval_line(exec(payload), Len(payload), last_line(payload)).raised = ""

LastLineValue(payload) ==
    eval_line(exec(payload), Len(payload), last_line(payload)).value

\* C30: execute_code of the worker returns the value of the final line when
\* that line starts with no keyword and evaluates without error, otherwise the
\* value the payload bound to result, otherwise None; a payload that binds
\* result and ends with an expression that evaluates returns the expression's
\* value and not the binding.
C30_LastLineThenBinding ==
    (run.stage = "done" /\ run.by = "worker") =>
        /\ run.returned = IF LastLineEvaluates(run.payload)
                            THEN LastLineValue(run.payload)
                            ELSE exec(run.payload).result
        /\ (BindLine \in Range(run.payload) /\ LastLineEvaluates(run.payload)) =>
               run.returned # exec(run.payload).result

\* The worker ran a payload that binds result and ends with a call, and
\* returned the value of the call.
C30_Witness ==
    /\ run.stage = "done"
    /\ run.by = "worker"
    /\ run.payload = <<BindLine, CallLine>>
    /\ run.returned = "value of f()"

\* The fields of an entry agree with its status.
FieldsAgree(job) ==
    CASE job.status \in {"pending", "running"} -> job.result = None /\ job.error = None
      [] job.status = "completed" -> job.error = None
      [] job.status = "failed" -> job.error # None /\ job.result = None
      [] OTHER -> job = NoJobResponse

\* C31: in every state of the job table a job's fields agree with its status:
\* pending and running jobs have neither result nor error, a completed job has
\* no error, a failed job has an error and no result; the same holds of every
\* entry as it stood after each write.
C31_FieldsAgreeWithStatus ==
    \A j \in JobIds :
        /\ FieldsAgree(jobs[j])
        /\ \A i \in DOMAIN written[j] : FieldsAgree(written[j][i])

\* A job failed with the log of its pod as the error, after it was pending and
\* running.
C31_Witness ==
    \E j \in JobIds :
        /\ jobs[j] = JobResponse("failed", None, "logs")
        /\ Len(written[j]) = 3
        /\ written[j][2].status = "running"

\* A round of the wait in which a status came back: the loop test passed and
\* the request did not raise.
StatusReply ==
    /\ client.pc = "waiting"
    /\ client' # client
    /\ client'.out \notin {wait_timed_out, request_failed}

\* A round of the wait that starts when the slept seconds have reached the
\* timeout.
LateRound ==
    /\ client.pc = "waiting"
    /\ client' # client
    /\ ~(client.waited < wait_timeout)

\* C32: the wait loop always ends when every status request returns; it
\* returns a value only after it observed completed, raises
\* RemoteExecutionError on failed and on every status other than pending,
\* running and completed (not_found too), goes on asking on pending and
\* running, and raises the timeout error once the timeout has elapsed.
C32_WaitEnds ==
    /\ (client.pc = "waiting") ~> (client.pc \in {"returned", "raised"})
    /\ [][/\ (client.pc = "waiting" /\ client'.pc = "returned") =>
                /\ get_job_status(FirstJob) = "completed"
                /\ client'.out = Return(jobs[FirstJob].result)
          /\ (StatusReply /\ get_job_status(FirstJob) = "completed") =>
                client'.pc = "returned"
          /\ (StatusReply /\ get_job_status(FirstJob)
                                \notin {"pending", "running", "completed"}) =>
                /\ client'.pc = "raised"
                /\ client'.out.kind = "RemoteExecutionError"
          /\ (StatusReply /\ get_job_status(FirstJob) \in {"pending", "running"}) =>
                /\ client'.pc = "waiting"
                /\ client'.waited = client.waited + poll_interval
          /\ LateRound =>
                /\ client'.pc = "raised"
                /\ client'.out = wait_timed_out]_vars

\* The wait asked again at least once and then met a controller that no
\* longer knows the job.
C32_Witness ==
    /\ client.pc = "raised"
    /\ client.out = Raise(<<"Unknown job status: ", "not_found">>)
    /\ client.waited > 0
    /\ written[FirstJob] # <<>>

\* _execute_remote reads the flag in this step and finds it true.
FlagTrue ==
    /\ build.stage = "remote"
    /\ should_run_locally(build)
    /\ build' # build

\* _execute_remote reads the flag in this step and finds it false.
FlagFalse ==
    /\ build.stage = "remote"
    /\ ~should_run_locally(build)
    /\ build' # build

\* C33: when should_run_locally is true at the call, the function is invoked
\* locally exactly once with the call's arguments, its result is returned, no
\* payload is built and no job is submitted; the flag is read again at every
\* call, whatever the earlier calls did.
C33_LocalCallOnce ==
    /\ [][/\ FlagTrue =>
                /\ build'.stage = "returned"
                /\ build'.invoked = <<<<build.args, build.kwargs>>>>
                /\ build'.result = <<fn(build.args, build.kwargs)>>
          /\ FlagFalse =>
                /\ build'.stage = "building"
                /\ build'.invoked = <<>>]_vars
    /\ [](build.stage # "none" =>
            /\ build.stage = "returned" =>
                  /\ Len(build.invoked) = 1
                  /\ build.code = NoCode
                  /\ ~build.posted
            /\ build.invoked # <<>> => build.stage = "returned"
            /\ build.stage \in {"built", "submitted"} => build.invoked = <<>>)

\* A call that ran locally is followed by a call of the same wrapper that
\* was submitted.
C33_Witness ==
    /\ build.stage = "submitted"
    /\ build.local = "callable"
    /\ build.history = <<"local">>
    /\ build.posted

\* A worker is inside execute_job with the entry of task t.
Held(t) == \E w \in Workers : wpc[w] \in {"try", "publish", "except"} /\ wjob[w].task_id = t

\* C34: every entry that start removed from the queue leads to an Outcome on
\* the channel of its job: once the loop is done with the entry (one that is
\* no JSON, or one whose publish fails, included) an Outcome has been
\* published for it.
C34_NoEntryDropped ==
    \A i \in DOMAIN deq : ~Held(deq[i]) => Len(Outcomes(deq[i])) >= 1

====
